---- MODULE Spec2Model ----
(***************************************************************************)
(* Model of mimopy.Network (src/src/mimopy/network.py): the topology graph *)
(* of AntennaArray nodes and Channel links, its add/remove operations, the *)
(* target overlays, move_node/realize and the per-link metric accessors.   *)
(* `chan' is one RayClusterChannel (channels/ray_cluster.py) between two   *)
(* single-element arrays and `arr' one AntennaArray                         *)
(* (devices/antenna_array.py), each with the calls made on it.             *)
(*                                                                         *)
(* Python objects are identified by an id; a str is a value of Names or    *)
(* NodeNames.  Ids and strings are disjoint, as an object is never equal   *)
(* to a str.  AntennaArray defines neither __eq__ nor __hash__, so nodes   *)
(* compare by identity; links compare by identity as well.                 *)
(* An exception aborts the handler where it is raised and leaves every     *)
(* assignment made before it in place; `last' records the call, its        *)
(* outcome, the realize() calls it made and the value it returned.         *)
(***************************************************************************)
EXTENDS Integers, Sequences, FiniteSets, TLC

\* ---------------------------------------------------------------- bounds
MaxArgs    == 2   \* longest iterable handed to an operation
MaxList    == 2   \* longest downlink / uplink list explored
MaxTargets == 2   \* longest target list explored
MaxDraws   == 2   \* realize() calls explored, over all channels
MaxDepth   == 3   \* nested calls allowed before RecursionError
MaxClusters == 3  \* largest n_clusters of a RayClusterChannel
MaxRays     == 2  \* largest per-cluster ray count, and most rays drawn at once
MaxElems    == 2  \* largest num_antennas of an AntennaArray explored

\* ------------------------------------------------------- object universe
Nodes     == {"a", "b", "c"}
NodeName  == [a |-> "A", b |-> "B", c |-> "C"]
NodeNames == {NodeName[n] : n \in Nodes}
Locs      == {0, 1}

\* Channel objects a caller may construct: l2 and l3 carry the same name,
\* l1 and l2 share a receiver, l1 and l3 meet at node a.
LinkObj == [l1 |-> [name |-> "x", tx |-> "a", rx |-> "c"],
            l2 |-> [name |-> "y", tx |-> "b", rx |-> "c"],
            l3 |-> [name |-> "y", tx |-> "b", rx |-> "a"]]
LinkIds == DOMAIN LinkObj
Names   == {LinkObj[l].name : l \in LinkIds}

IsStr(v) == v \in Names \cup NodeNames

VARIABLES links, connections, target_links, target_nodes, location, H, rng, last,
          chan, arr, wave
vars == <<links, connections, target_links, target_nodes, location, H, rng, last,
          chan, arr, wave>>

\* ---------------------------------------------------------------- helpers
\* A call returns [err, val]: the exception raised, or the value returned.
Ok(v)  == [err |-> "ok", val |-> v]
Err(e) == [err |-> e, val |-> <<>>]

Range(s) == {s[i] : i \in DOMAIN s}

RECURSIVE SetToSeq(_)
SetToSeq(S) ==
    IF S = {} THEN <<>>
    ELSE LET x == CHOOSE y \in S : TRUE IN <<x>> \o SetToSeq(S \ {x})

ArgSeqs(S) == UNION {[1..k -> S] : k \in 1..MaxArgs}

EmptyMap == [k \in {} |-> "none"]

\* dict.pop(key, None)
DictPop(d, k) == [x \in DOMAIN d \ {k} |-> d[x]]

\* d[k] = v
DictSet(d, k, v) == [x \in DOMAIN d \cup {k} |-> IF x = k THEN v ELSE d[x]]

FirstIndex(s, x) == CHOOSE i \in DOMAIN s : s[i] = x /\ \A j \in 1..(i - 1) : s[j] # x

\* list.remove(x) on a list that holds x: drops the first occurrence
ListRemove(s, x) ==
    LET i == FirstIndex(s, x)
    IN  SubSeq(s, 1, i - 1) \o SubSeq(s, i + 1, Len(s))

\* A network under a running handler; err is the exception raised so far.
Net(l, c, tl, tn, e) == [links |-> l, conn |-> c, tl |-> tl, tn |-> tn, err |-> e]
Raise(g, e) == [g EXCEPT !.err = e]
CurNet == Net(links, connections, target_links, target_nodes, "ok")

\* self.connections[node][key].remove(link)
ConnRemove(g, node, key, link) ==
    IF node \notin DOMAIN g.conn THEN Raise(g, "KeyError")
    ELSE IF link \notin Range(g.conn[node][key]) THEN Raise(g, "ValueError")
    ELSE [g EXCEPT !.conn[node][key] = ListRemove(@, link)]

\* self.connections[node][key].append(link)
ConnAppend(g, node, key, link) ==
    IF node \notin DOMAIN g.conn THEN Raise(g, "KeyError")
    ELSE [g EXCEPT !.conn[node][key] = Append(@, link)]

\* ------------------------------------------------------ nodes and links
_add_node(g, node) ==
    IF node \notin DOMAIN g.conn
    THEN [g EXCEPT !.conn = DictSet(g.conn, node, [dl |-> <<>>, ul |-> <<>>])]
    ELSE g

_add_link(g, link) ==
    IF LinkObj[link].name \notin DOMAIN g.links /\ link \notin Range(g.links)
    THEN LET g1 == [g EXCEPT !.links = DictSet(g.links, LinkObj[link].name, link)]
             g2 == _add_node(g1, LinkObj[link].tx)
             g3 == ConnAppend(g2, LinkObj[link].tx, "dl", link)
             g4 == _add_node(g3, LinkObj[link].rx)
         IN  ConnAppend(g4, LinkObj[link].rx, "ul", link)
    ELSE g

\* the key handed to self.links.pop() by _remove_node: the link object
RemoveNodePopKey(link) == link

RECURSIVE RemoveNodeDl(_, _, _)
RemoveNodeDl(g, node, i) ==
    IF g.err # "ok" \/ i > Len(g.conn[node].dl) THEN g
    ELSE LET link == g.conn[node].dl[i]
             g1   == [g EXCEPT !.links = DictPop(g.links, RemoveNodePopKey(link))]
         IN  RemoveNodeDl(ConnRemove(g1, LinkObj[link].rx, "ul", link), node, i + 1)

RECURSIVE RemoveNodeUl(_, _, _)
RemoveNodeUl(g, node, i) ==
    IF g.err # "ok" \/ i > Len(g.conn[node].ul) THEN g
    ELSE LET link == g.conn[node].ul[i]
             g1   == [g EXCEPT !.links = DictPop(g.links, RemoveNodePopKey(link))]
         IN  RemoveNodeUl(ConnRemove(g1, LinkObj[link].tx, "dl", link), node, i + 1)

_remove_node_unguarded(g, node) ==
    IF node \in DOMAIN g.conn
    THEN RemoveNodeUl(RemoveNodeDl(g, node, 1), node, 1)
    ELSE Raise(g, "KeyError")

_remove_node(g, node) ==
    IF node \in DOMAIN g.conn
    THEN RemoveNodeUl(RemoveNodeDl(g, node, 1), node, 1)
    ELSE g

_remove_link(g, link) ==
    IF IsStr(link) /\ link \notin DOMAIN g.links THEN Raise(g, "KeyError")
    ELSE LET lk == IF IsStr(link) THEN g.links[link] ELSE link
             g1 == [g EXCEPT !.links = DictPop(g.links, LinkObj[lk].name)]
             g2 == ConnRemove(g1, LinkObj[lk].tx, "dl", lk)
         IN  IF g2.err # "ok" THEN g2
             ELSE ConnRemove(g2, LinkObj[lk].rx, "ul", lk)

\* for x in xs: ...   (the loop stops at the first exception)
RECURSIVE AddNodesLoop(_, _, _)
AddNodesLoop(g, xs, i) ==
    IF g.err # "ok" \/ i > Len(xs) THEN g
    ELSE AddNodesLoop(_add_node(g, xs[i]), xs, i + 1)

RECURSIVE AddLinksLoop(_, _, _)
AddLinksLoop(g, xs, i) ==
    IF g.err # "ok" \/ i > Len(xs) THEN g
    ELSE AddLinksLoop(_add_link(g, xs[i]), xs, i + 1)

RECURSIVE RemoveNodesLoop(_, _, _)
RemoveNodesLoop(g, xs, i) ==
    IF g.err # "ok" \/ i > Len(xs) THEN g
    ELSE RemoveNodesLoop(_remove_node(g, xs[i]), xs, i + 1)

RECURSIVE RemoveLinksLoop(_, _, _)
RemoveLinksLoop(g, xs, i) ==
    IF g.err # "ok" \/ i > Len(xs) THEN g
    ELSE RemoveLinksLoop(_remove_link(g, xs[i]), xs, i + 1)

\* An argument is [single |-> BOOLEAN, items |-> sequence]; a single object
\* (not wrapped in an iterable) has one item.
add_nodes(g, arg) == AddNodesLoop(g, arg.items, 1)

add_links(g, arg) == AddLinksLoop(g, arg.items, 1)

\* `if nodes.__iter__:' raises AttributeError on an AntennaArray
remove_nodes(g, arg) ==
    IF arg.single THEN Raise(g, "AttributeError")
    ELSE RemoveNodesLoop(g, arg.items, 1)

\* a str is an Iterable of its characters; link names are one character long
remove_links(g, arg) == RemoveLinksLoop(g, arg.items, 1)

\* ------------------------------------------------ target links and nodes
\* self.target_*.remove(x)
TargetRemove(g, key, x) ==
    IF x \notin Range(g[key]) THEN Raise(g, "ValueError")
    ELSE [g EXCEPT ![key] = ListRemove(@, x)]

RECURSIVE AddTargetNodesLoop(_, _, _)
AddTargetNodesLoop(g, xs, i) ==
    IF g.err # "ok" \/ i > Len(xs) THEN g
    ELSE LET g1 == _add_node(g, xs[i])
         IN  AddTargetNodesLoop([g1 EXCEPT !.tn = Append(@, xs[i])], xs, i + 1)

RECURSIVE RemoveTargetNodesLoop(_, _, _)
RemoveTargetNodesLoop(g, xs, i) ==
    IF g.err # "ok" \/ i > Len(xs) THEN g
    ELSE RemoveTargetNodesLoop(TargetRemove(g, "tn", xs[i]), xs, i + 1)

RECURSIVE AddTargetLinksLoop(_, _, _)
AddTargetLinksLoop(g, xs, i) ==
    IF g.err # "ok" \/ i > Len(xs) THEN g
    ELSE LET g1 == _add_link(g, xs[i])
         IN  AddTargetLinksLoop([g1 EXCEPT !.tl = Append(@, xs[i])], xs, i + 1)

RECURSIVE RemoveTargetLinksLoop(_, _, _)
RemoveTargetLinksLoop(g, xs, i) ==
    IF g.err # "ok" \/ i > Len(xs) THEN g
    ELSE RemoveTargetLinksLoop(TargetRemove(g, "tl", xs[i]), xs, i + 1)

add_target_nodes(g, arg) == AddTargetNodesLoop(g, arg.items, 1)

remove_target_nodes(g, arg) == RemoveTargetNodesLoop(g, arg.items, 1)

add_target_links(g, arg) == AddTargetLinksLoop(g, arg.items, 1)

remove_target_links(g, arg) == RemoveTargetLinksLoop(g, arg.items, 1)

Args(S) == {[single |-> FALSE, items |-> s] : s \in ArgSeqs(S)}
               \cup {[single |-> TRUE, items |-> <<x>>] : x \in S}

ListsBounded(g) ==
    /\ \A n \in DOMAIN g.conn : Len(g.conn[n].dl) <= MaxList /\ Len(g.conn[n].ul) <= MaxList
    /\ Len(g.tl) <= MaxTargets
    /\ Len(g.tn) <= MaxTargets

Commit(g, op, arg, value) ==
    /\ ListsBounded(g)
    /\ links' = g.links
    /\ connections' = g.conn
    /\ target_links' = g.tl
    /\ target_nodes' = g.tn
    /\ last' = [op |-> op, arg |-> arg, result |-> g.err, realized |-> <<>>,
                value |-> value]

\* ---------------------------------------------------- RayClusterChannel
\* One RayClusterChannel between two single-element arrays.  A complex
\* number is a pair <<re, im>> of integers.
CAdd(a, b) == <<a[1] + b[1], a[2] + b[2]>>
CMul(a, b) == <<a[1] * b[1] - a[2] * b[2], a[1] * b[2] + a[2] * b[1]>>
CConj(a)   == <<a[1], 0 - a[2]>>
Abs2(a)    == a[1] * a[1] + a[2] * a[2]

\* values rng.normal may deliver as a ray gain (real and imaginary part)
GainValues == {<<1, 0>>, <<0, 1>>, <<1, 1>>, <<2, 0>>}

\* an n_rays argument: a Python int, or an array of per-cluster counts
RayInt(n)  == [kind |-> "int", v |-> <<n>>]
RayVec(v)  == [kind |-> "vec", v |-> v]
RayArgs ==
    {RayInt(n) : n \in 1..MaxRays}
        \cup {RayVec(v) : v \in UNION {[1..k -> 1..MaxRays] : k \in 1..MaxClusters}}

np_repeat_once(n, c) == <<n>>

\* np.repeat(n, c) of a scalar n
np_repeat(n, c) == [i \in 1..c |-> n]

\* np.repeat(n_rays, n_clusters) if isinstance(n_rays, int) else n_rays
Broadcast(arg, c) == IF arg.kind = "int" THEN np_repeat(arg.v[1], c) ELSE arg.v

NoMatrix == [sum |-> <<0, 0>>, over |-> 0]

\* RayClusterChannel.__init__
RayClusterChannel(n_clusters, n_rays) ==
    [n_clusters |-> n_clusters, n_rays |-> Broadcast(n_rays, n_clusters),
     ray_gain |-> <<>>, H |-> NoMatrix,
     cluster_angle_distrubution |-> "uniform", ray_angle_distribution |-> "laplace"]

RECURSIVE SeqSum(_, _)
SeqSum(v, i) == IF i > Len(v) THEN 0 ELSE v[i] + SeqSum(v, i + 1)

\* total_n_rays = self.n_rays.sum()
total_n_rays(ch) == SeqSum(ch.n_rays, 1)

\* the rays of cluster_aoa.repeat(self.n_rays, axis=1): a count per cluster,
\* or one count repeated for every cluster; 0 stands for the ValueError of a
\* repeats array of any other length
NumRays(ch) ==
    IF Len(ch.n_rays) = ch.n_clusters THEN SeqSum(ch.n_rays, 1)
    ELSE IF Len(ch.n_rays) = 1 THEN ch.n_clusters * ch.n_rays[1]
    ELSE 0

ArrayResponseZero(angle) == <<<<0, 0>>>>

\* get_array_response of a single-element array at any angle: the element
\* is its own phase reference, exp(1j * 2 * pi * 0)
ArrayResponse(angle) == <<<<1, 0>>>>

\* np.einsum("bn,bnr,bnt->brt", gain, arx, atx.conj()) for one channel and
\* 1 x 1 arrays: the sum over the rays n
RECURSIVE Einsum(_, _)
Einsum(gain, i) ==
    IF i > Len(gain) THEN <<0, 0>>
    ELSE CAdd(CMul(gain[i], CMul(ArrayResponse(i)[1], CConj(ArrayResponse(i)[1]))),
              Einsum(gain, i + 1))

\* _torch_generate_channel_matrix: np.sqrt(self.total_n_rays) is a numpy
\* float, which has no cpu()
TorchSqrtHasCpu == FALSE

\* generate_channel_matrix(aoa, aod, gain, use_torch): the matrix is the
\* einsum divided by sqrt(total_n_rays), kept as [sum, over]
generate_channel_matrix(ch, gain, use_torch) ==
    IF use_torch /\ ~TorchSqrtHasCpu THEN Err("AttributeError")
    ELSE Ok([sum |-> Einsum(gain, 1), over |-> total_n_rays(ch)])

RayLast(op, arg, result, value) ==
    [op |-> op, arg |-> arg, result |-> result, realized |-> <<>>, value |-> value]

NetUnchanged ==
    UNCHANGED <<links, connections, target_links, target_nodes, location, H, rng>>

\* RayClusterChannel(tx, rx, n_clusters=c, n_rays=n)
RayInit ==
    \E c \in 1..MaxClusters, n \in RayArgs :
        /\ chan' = RayClusterChannel(c, n)
        /\ last' = RayLast("RayClusterChannel", n, "ok", <<>>)
        /\ NetUnchanged /\ UNCHANGED <<arr, wave>>

\* channel.n_clusters = c (a plain attribute)
SetNClusters ==
    \E c \in 1..MaxClusters :
        /\ chan' = [chan EXCEPT !.n_clusters = c]
        /\ last' = RayLast("n_clusters", RayInt(c), "ok", <<>>)
        /\ NetUnchanged /\ UNCHANGED <<arr, wave>>

\* channel.n_rays = n (the property setter)
SetNRays ==
    \E n \in RayArgs :
        /\ chan' = [chan EXCEPT !.n_rays = Broadcast(n, chan.n_clusters)]
        /\ last' = RayLast("n_rays", n, "ok", <<>>)
        /\ NetUnchanged /\ UNCHANGED <<arr, wave>>

\* distribution names a caller may pass: two sampling methods, a generator
\* method that samples nothing, and a name the generator does not have
DistNames == {"uniform", "laplace", "shuffle", "nonsense"}
GeneratorAttrs == {"uniform", "laplace", "shuffle"}
SamplingDistributions == {"uniform", "laplace"}

\* the names whose method takes (low, high, size) positionally, and the
\* names whose method takes loc= and scale=
ClusterCallable == {"uniform", "laplace"}
RayCallable == {"laplace"}

\* generate_cluster_angles: getattr(self.rng, name), then two calls
generate_cluster_angles_err(ch) ==
    IF ch.cluster_angle_distrubution \notin GeneratorAttrs THEN "AttributeError"
    ELSE IF ch.cluster_angle_distrubution \notin ClusterCallable THEN "TypeError"
    ELSE "ok"

\* generate_ray_angles: getattr, then the repeat of the cluster angles, then
\* the call with loc= and scale=
generate_ray_angles_err(ch) ==
    IF ch.ray_angle_distribution \notin GeneratorAttrs THEN "AttributeError"
    ELSE IF NumRays(ch) = 0 THEN "ValueError"
    ELSE IF ch.ray_angle_distribution \notin RayCallable THEN "TypeError"
    ELSE "ok"

\* cluster_aoa.repeat(self.n_rays, axis=1): the cluster of every ray
RECURSIVE RepeatEach(_, _, _)
RepeatEach(ch, c, k) ==
    IF c > ch.n_clusters THEN <<>>
    ELSE LET n == IF Len(ch.n_rays) = 1 THEN ch.n_rays[1] ELSE ch.n_rays[c] IN
         IF k > n THEN RepeatEach(ch, c + 1, 1)
         ELSE <<c>> \o RepeatEach(ch, c, k + 1)

\* generate_ray_angles(cluster_aoa, cluster_aod): every angle is a draw
\* whose location is the angle of the ray's cluster
generate_ray_angles(ch) ==
    IF generate_ray_angles_err(ch) # "ok" THEN Err(generate_ray_angles_err(ch))
    ELSE LET parent == RepeatEach(ch, 1, 1) IN
         Ok([aoa |-> [i \in DOMAIN parent |-> <<"cluster_aoa", parent[i]>>],
             aod |-> [i \in DOMAIN parent |-> <<"cluster_aod", parent[i]>>]])

\* the exception realize() ends in, or "ok"
RealizeErr(ch) ==
    IF generate_cluster_angles_err(ch) # "ok" THEN generate_cluster_angles_err(ch)
    ELSE generate_ray_angles_err(ch)

\* the axes of np.einsum("bn,bnr,bnt->brt", gain, arx, atx.conj()):
\* r runs over the entries of arx, t over those of atx
ChannelMatrixShape(b, txN, rxN) == <<b, rxN, txN>>

\* RayClusterChannel(tx, rx, cluster_angle_distrubution=cd,
\* ray_angle_distribution=rd)
RayInitNamed ==
    \E cd \in DistNames, rd \in DistNames :
        /\ chan' = [RayClusterChannel(1, RayInt(1)) EXCEPT
                        !.cluster_angle_distrubution = cd,
                        !.ray_angle_distribution = rd]
        /\ last' = RayLast("RayClusterChannel", RayInt(1), "ok", <<>>)
        /\ NetUnchanged /\ UNCHANGED <<arr, wave>>

\* channel.generate_ray_angles(cluster_aoa, cluster_aod) for the angles of
\* n_clusters clusters
GenerateRayAngles ==
    /\ NumRays(chan) <= MaxRays
    /\ last' = RayLast("generate_ray_angles", RayInt(chan.n_clusters),
                       generate_ray_angles(chan).err, generate_ray_angles(chan).val)
    /\ NetUnchanged /\ UNCHANGED <<chan, arr, wave>>

\* the shape of channel.generate_channels(b) between arrays of txN and rxN
\* elements
GenerateChannels ==
    \E b \in 1..2, txN \in 1..MaxElems, rxN \in 1..MaxElems :
        /\ RealizeErr(chan) = "ok"
        /\ NumRays(chan) <= MaxRays
        /\ last' = RayLast("generate_channels", [b |-> b, txN |-> txN, rxN |-> rxN],
                           "ok", ChannelMatrixShape(b, txN, rxN))
        /\ NetUnchanged /\ UNCHANGED <<chan, arr, wave>>

\* the names SphericalWave.realize can resolve: the module imports Channel
\* and nothing else; tx, rx and np are not among them
SphericalWaveNames == {"self", "Channel"}

SphericalWave == [channel_matrix |-> NoMatrix]

\* SphericalWave.realize(): its first statement reads tx.coordinates
SphericalRealize ==
    IF "tx" \notin SphericalWaveNames
    THEN /\ last' = RayLast("realize_wave", <<>>, "NameError", <<>>)
         /\ NetUnchanged /\ UNCHANGED <<chan, arr, wave>>
    ELSE /\ wave' = [wave EXCEPT !.channel_matrix = [sum |-> <<1, 0>>, over |-> 1]]
         /\ last' = RayLast("realize_wave", <<>>, "ok", [sum |-> <<1, 0>>, over |-> 1])
         /\ NetUnchanged /\ UNCHANGED <<chan, arr>>

\* RayClusterChannel.realize(): the gains are what the stream delivers
RayRealize ==
    IF RealizeErr(chan) # "ok"
    THEN /\ last' = RayLast("realize_ray", RayInt(0), RealizeErr(chan), <<>>)
         /\ NetUnchanged /\ UNCHANGED <<chan, arr, wave>>
    ELSE /\ NumRays(chan) <= MaxRays
         /\ \E gain \in [1..NumRays(chan) -> GainValues] :
               LET m == generate_channel_matrix(chan, gain, FALSE) IN
               /\ chan' = [chan EXCEPT !.ray_gain = gain, !.H = m.val]
               /\ last' = RayLast("realize_ray", RayInt(NumRays(chan)), "ok", m.val)
         /\ NetUnchanged /\ UNCHANGED <<arr, wave>>

\* channel.generate_channel_matrix(channel.aoa, channel.aod,
\* channel.ray_gain, use_torch): the rays of the last realization
GenerateChannelMatrix ==
    \E use_torch \in BOOLEAN :
        LET m == generate_channel_matrix(chan, chan.ray_gain, use_torch) IN
        /\ chan.ray_gain # <<>>
        /\ last' = [op |-> "generate_channel_matrix", arg |-> RayVec(chan.ray_gain),
                    result |-> m.err, realized |-> <<>>, value |-> m.val,
                    use_torch |-> use_torch]
        /\ NetUnchanged /\ UNCHANGED <<chan, arr, wave>>

\* --------------------------------------------------------- AntennaArray
\* One AntennaArray: num_antennas, the rows of coordinates and the weights.
\* A weight is <<value, normalized>>.
Origin == <<0, 0, 0>>
Points == {<<0, 0, 0>>, <<1, 0, 0>>}
WeightValues == {0, 1}
NoWeights == <<>>

\* arrays of at most n rows / n weights handed to a call
CoordArrays(n)  == UNION {[1..k -> Points] : k \in 1..n}
WeightArrays(n) == UNION {[1..k -> WeightValues] : k \in 1..n}

\* np.ones(n), and the weights array built from plain values
np_ones(n)   == [i \in 1..n |-> <<1, FALSE>>]
AsWeights(w) == [i \in DOMAIN w |-> <<w[i], FALSE>>]

\* AntennaArray.__init__(N, coordinates, weights=None)
AntennaArray(N, coordinates, weights) ==
    [num_antennas |-> N, coordinates |-> coordinates,
     weights |-> IF weights = NoWeights THEN np_ones(N) ELSE AsWeights(weights)]

ArrOk(a)       == [arr |-> a, err |-> "ok"]
ArrErr(a, e)   == [arr |-> a, err |-> e]

\* reset(): weights = np.ones(self.num_antennas)
reset(a) == ArrOk([a EXCEPT !.weights = np_ones(a.num_antennas)])

\* normalize_weights(): nothing happens to a zero vector
normalize_weights(a) ==
    IF \A i \in DOMAIN a.weights : a.weights[i][1] = 0 THEN ArrOk(a)
    ELSE ArrOk([a EXCEPT !.weights = [i \in DOMAIN a.weights |-> <<a.weights[i][1], TRUE>>]])

\* set_weights(weights): w = [scalar, v]
set_weights(a, w) ==
    IF w.scalar
    THEN ArrOk([a EXCEPT !.weights = [i \in 1..a.num_antennas |-> <<w.v[1], FALSE>>]])
    ELSE IF Len(w.v) # a.num_antennas THEN ArrErr(a, "ValueError")
    ELSE ArrOk([a EXCEPT !.weights = AsWeights(w.v)])

\* the row test of _match_coordinates: equal on all three axes
RowEq(p, q) == p[1] = q[1] /\ p[2] = q[2] /\ p[3] = q[3]

RECURSIVE MatchRow(_, _, _)
MatchRow(a, q, i) ==
    IF i > Len(a.coordinates) THEN <<>>
    ELSE (IF RowEq(q, a.coordinates[i]) THEN <<i>> ELSE <<>>) \o MatchRow(a, q, i + 1)

\* _match_coordinates(coordinates): the indices np.where delivers, query row
\* by query row
RECURSIVE _match_coordinates(_, _, _)
_match_coordinates(a, c, j) ==
    IF j > Len(c) THEN <<>>
    ELSE MatchRow(a, c[j], 1) \o _match_coordinates(a, c, j + 1)

\* add_elements(coordinates): c = [ndarray, rows]; a list has no shape, and
\* the coordinates are assigned before it is asked for
add_elements(a, c) ==
    LET grown == [a EXCEPT !.coordinates = @ \o c.rows] IN
    IF ~c.ndarray THEN ArrErr(grown, "AttributeError")
    ELSE ArrOk([grown EXCEPT !.num_antennas = @ + Len(c.rows),
                             !.weights = @ \o np_ones(Len(c.rows))])

\* remove_elements(coordinates=None, indices=None): r = [by, v].  The two
\* inner functions take (self, x) and are called with x alone.
remove_elements(a, r) ==
    IF r.by = "coordinates" THEN ArrErr(a, "TypeError")
    ELSE IF r.by = "indices" THEN ArrErr(a, "TypeError")
    ELSE ArrErr(a, "ValueError")

\* a call on the array; a removal keeps the array before the call in value
ArrCommit(op, arg, r) ==
    /\ arr' = r.arr
    /\ last' = [op |-> op, arg |-> arg, result |-> r.err, realized |-> <<>>,
                value |-> IF op = "remove_elements" THEN arr ELSE <<>>]
    /\ NetUnchanged /\ UNCHANGED <<chan, wave>>

ArrayInit ==
    \E N \in 1..MaxElems, c \in CoordArrays(MaxElems),
       w \in {NoWeights} \cup WeightArrays(MaxElems) :
        ArrCommit("AntennaArray", [N |-> N, rows |-> c, weights |-> w],
                  ArrOk(AntennaArray(N, c, w)))

AddElements ==
    \E c \in CoordArrays(1), nd \in BOOLEAN :
        /\ Len(arr.coordinates) < MaxElems
        /\ ArrCommit("add_elements", [ndarray |-> nd, rows |-> c],
                     add_elements(arr, [ndarray |-> nd, rows |-> c]))

RemoveElements ==
    \/ \E c \in CoordArrays(1) :
          ArrCommit("remove_elements", [by |-> "coordinates", v |-> c],
                    remove_elements(arr, [by |-> "coordinates", v |-> c]))
    \/ \E i \in 1..MaxElems :
          ArrCommit("remove_elements", [by |-> "indices", v |-> <<i>>],
                    remove_elements(arr, [by |-> "indices", v |-> <<i>>]))
    \/ ArrCommit("remove_elements", [by |-> "none", v |-> <<>>],
                  remove_elements(arr, [by |-> "none", v |-> <<>>]))

SetWeights ==
    \E w \in {[scalar |-> TRUE, v |-> <<x>>] : x \in WeightValues}
               \cup {[scalar |-> FALSE, v |-> v] : v \in WeightArrays(MaxElems)} :
        ArrCommit("set_weights", w, set_weights(arr, w))

Reset == ArrCommit("reset", <<>>, reset(arr))

NormalizeWeights == ArrCommit("normalize_weights", <<>>, normalize_weights(arr))
\* the methods AntennaArray defines that rotate() relies on: translate and
\* copy are not among them (translate is commented out)
AntennaArrayMethods == {"_rotate", "rotate"}

\* an angle of 0 or 90 degrees, as its sine and cosine
Angles == {[sin |-> 0, cos |-> 1], [sin |-> 1, cos |-> 0]}

\* rotate(x_angle, y_angle, z_angle, inplace): _rotate builds the rotation
\* matrix and then calls self.translate(); with inplace=False rotate calls
\* self.copy() first
rotate(a, z_angle, inplace) ==
    IF ~inplace /\ "copy" \notin AntennaArrayMethods THEN ArrErr(a, "AttributeError")
    ELSE IF "translate" \notin AntennaArrayMethods THEN ArrErr(a, "AttributeError")
    ELSE ArrOk(a)

Rotate ==
    \E z_angle \in Angles, inplace \in BOOLEAN :
        /\ arr' = rotate(arr, z_angle, inplace).arr
        /\ last' = [op |-> "rotate", arg |-> [z_angle |-> z_angle, inplace |-> inplace],
                    result |-> rotate(arr, z_angle, inplace).err,
                    realized |-> <<>>, value |-> <<>>]
        /\ NetUnchanged /\ UNCHANGED <<chan, wave>>

RefRowOrigin(a) == Origin

\* the element the displacements are taken from: self.coordinates[0]
RefRow(a) == a.coordinates[1]

\* exp(1j * 2 * pi * (dx sin(az) cos(el) + dy cos(az) cos(el) + dz sin(el)))
\* for coordinates counted in half wavelengths: the phase is a whole number
\* of half turns, and the response is 1 or -1
ElementResponse(d, az, el) ==
    IF (d[1] * az.sin * el.cos + d[2] * az.cos * el.cos + d[3] * el.sin) % 2 = 0
    THEN <<1, 0>> ELSE <<0 - 1, 0>>

\* get_array_response(az, el): one entry per coordinate row
get_array_response(a, az, el) ==
    [i \in DOMAIN a.coordinates |->
        ElementResponse(<<a.coordinates[i][1] - RefRow(a)[1],
                          a.coordinates[i][2] - RefRow(a)[2],
                          a.coordinates[i][3] - RefRow(a)[3]>>, az, el)]

GetArrayResponse ==
    \E az \in Angles, el \in Angles :
        /\ last' = [op |-> "get_array_response", arg |-> [az |-> az, el |-> el],
                    result |-> "ok", realized |-> <<>>,
                    value |-> get_array_response(arr, az, el)]
        /\ NetUnchanged /\ UNCHANGED <<chan, arr, wave>>

\* ------------------------------------------------------------------ state
\* Channel.__init__ gives every channel a generator of its own, made from
\* its seed; the state of a stream is the number of realizations drawn
ChannelRng(link) == 0

Init ==
    /\ links = EmptyMap
    /\ connections = EmptyMap
    /\ target_links = <<>>
    /\ target_nodes = <<>>
    /\ location = [n \in Nodes |-> 0]
    /\ H = [l \in LinkIds |-> 0]
    /\ rng = [l \in LinkIds |-> ChannelRng(l)]
    /\ last = [op |-> "init", arg |-> [single |-> FALSE, items |-> <<>>],
               result |-> "ok", realized |-> <<>>, value |-> <<>>]
    /\ chan = RayClusterChannel(1, RayInt(1))
    /\ arr = AntennaArray(1, <<Origin>>, NoWeights)
    /\ wave = SphericalWave

\* realize() of one channel: it draws from the channel's own stream and
\* stores the matrix computed from those draws; ch = [H, rng, log].
ChannelMatrix(link, draws) == draws

ChannelRealizeSharedStream(ch, link) ==
    [H   |-> [ch.H EXCEPT ![link] = ChannelMatrix(link, ch.rng[link] + 1)],
     rng |-> [l \in DOMAIN ch.rng |->
                IF l = link \/ l = "l1" THEN ch.rng[l] + 1 ELSE ch.rng[l]],
     log |-> Append(ch.log, link)]

ChannelRealize(ch, link) ==
    [H   |-> [ch.H EXCEPT ![link] = ChannelMatrix(link, ch.rng[link] + 1)],
     rng |-> [ch.rng EXCEPT ![link] = @ + 1],
     log |-> Append(ch.log, link)]

RECURSIVE RealizeEach(_, _, _)
RealizeEach(ch, xs, i) ==
    IF i > Len(xs) THEN ch
    ELSE RealizeEach(ChannelRealize(ch, xs[i]), xs, i + 1)

CurCh == [H |-> H, rng |-> rng, log |-> <<>>]

RECURSIVE SumOver(_, _)
SumOver(f, S) ==
    IF S = {} THEN 0
    ELSE LET x == CHOOSE y \in S : TRUE IN f[x] + SumOver(f, S \ {x})

DrawsBounded(ch) == SumOver(ch.rng, LinkIds) <= MaxDraws

MoveNodeRealizedAll(conn, node) ==
    SetToSeq(UNION {Range(conn[n].dl) \cup Range(conn[n].ul) : n \in DOMAIN conn})

\* the links move_node realizes, in order
MoveNodeRealized(conn, node) == conn[node].dl \o conn[node].ul

\* self.nodes: name -> node, over the keys of connections
nodes(conn) ==
    [nm \in {NodeName[n] : n \in DOMAIN conn} |-> CHOOSE n \in DOMAIN conn : NodeName[n] = nm]

NoArg == [single |-> FALSE, items |-> <<>>]

\* the registered links that have a node of ns as tx or rx
Touching(ns) ==
    {l \in Range(links) : LinkObj[l].tx \in ns \/ LinkObj[l].rx \in ns}

\* Each operation is called with an argument drawn from A; rec says whether
\* `last' keeps the argument or only the operation's name and outcome.  For
\* remove_nodes the record also keeps, as value, the registered links that
\* touched the nodes when the call was made.
AddNodesOver(A, rec) ==
    \E arg \in A :
        /\ Commit(add_nodes(CurNet, arg), "add_nodes", IF rec THEN arg ELSE NoArg, <<>>)
        /\ UNCHANGED <<location, H, rng, chan, arr, wave>>

AddLinksOver(A, rec) ==
    \E arg \in A :
        /\ Commit(add_links(CurNet, arg), "add_links", IF rec THEN arg ELSE NoArg, <<>>)
        /\ UNCHANGED <<location, H, rng, chan, arr, wave>>

RemoveNodesOver(A, rec) ==
    \E arg \in A :
        /\ Commit(remove_nodes(CurNet, arg), "remove_nodes", IF rec THEN arg ELSE NoArg,
                  IF rec THEN Touching(Range(arg.items)) ELSE <<>>)
        /\ UNCHANGED <<location, H, rng, chan, arr, wave>>

RemoveLinksOver(A, rec) ==
    \E arg \in A :
        /\ Commit(remove_links(CurNet, arg), "remove_links", IF rec THEN arg ELSE NoArg, <<>>)
        /\ UNCHANGED <<location, H, rng, chan, arr, wave>>

\* the operations called with a single object or an iterable of up to MaxArgs
AddNodes    == AddNodesOver(Args(Nodes), TRUE)
AddLinks    == AddLinksOver(Args(LinkIds), TRUE)
RemoveNodes == RemoveNodesOver(Args(Nodes), TRUE)
RemoveLinks == RemoveLinksOver(Args(LinkIds \cup Names), TRUE)

\* the operations called with a one-element iterable, building the network
\* in the specifications about move_node, the targets and the metrics
One(S) == {[single |-> FALSE, items |-> <<x>>] : x \in S}
\* ... over the channels l1 and l3, which meet at node a
MoveLinks == {"l1", "l3"}
AddLinks1    == AddLinksOver(One(MoveLinks), FALSE)
RemoveNodes1 == RemoveNodesOver(One(Nodes), FALSE)
RemoveLinks1 == RemoveLinksOver(One(MoveLinks \cup {LinkObj[l].name : l \in MoveLinks}), FALSE)

\* the target operations, called with a single object or a one-element iterable
OneOrSingle(S) == One(S) \cup {[single |-> TRUE, items |-> <<x>>] : x \in S}

AddTargetNodes ==
    \E arg \in OneOrSingle(Nodes) :
        /\ Commit(add_target_nodes(CurNet, arg), "add_target_nodes", NoArg, <<>>)
        /\ UNCHANGED <<location, H, rng, chan, arr, wave>>

RemoveTargetNodes ==
    \E arg \in OneOrSingle(Nodes) :
        /\ Commit(remove_target_nodes(CurNet, arg), "remove_target_nodes", NoArg, <<>>)
        /\ UNCHANGED <<location, H, rng, chan, arr, wave>>

AddTargetLinks ==
    \E arg \in OneOrSingle(MoveLinks) :
        /\ Commit(add_target_links(CurNet, arg), "add_target_links", NoArg, <<>>)
        /\ UNCHANGED <<location, H, rng, chan, arr, wave>>

RemoveTargetLinks ==
    \E arg \in OneOrSingle(MoveLinks) :
        /\ Commit(remove_target_links(CurNet, arg), "remove_target_links", NoArg, <<>>)
        /\ UNCHANGED <<location, H, rng, chan, arr, wave>>

\* Network.realize()
Realize ==
    LET xs == SetToSeq(Range(links))
        ch == RealizeEach(CurCh, xs, 1)
    IN  /\ DrawsBounded(ch)
        /\ H' = ch.H
        /\ rng' = ch.rng
        /\ last' = [op |-> "realize", arg |-> [single |-> TRUE, items |-> <<>>],
                    result |-> "ok", realized |-> ch.log, value |-> <<>>]
        /\ UNCHANGED <<links, connections, target_links, target_nodes, location,
                       chan, arr, wave>>

\* link.realize() called on a channel object itself, registered or not
RealizeOne ==
    \E l \in MoveLinks :
        LET ch == ChannelRealize(CurCh, l) IN
        /\ DrawsBounded(ch)
        /\ H' = ch.H
        /\ rng' = ch.rng
        /\ last' = [op |-> "channel_realize", arg |-> [single |-> TRUE, items |-> <<l>>],
                    result |-> "ok", realized |-> ch.log, value |-> <<>>]
        /\ UNCHANGED <<links, connections, target_links, target_nodes, location,
                       chan, arr, wave>>

\* Network.move_node(node, location)
MoveNode ==
    \E node \in Nodes \cup NodeNames, loc \in Locs :
        LET arg == [single |-> TRUE, items |-> <<node>>] IN
        IF IsStr(node) /\ node \notin DOMAIN nodes(connections)
        THEN /\ last' = [op |-> "move_node", arg |-> arg, result |-> "KeyError",
                         realized |-> <<>>, value |-> <<>>]
             /\ UNCHANGED <<links, connections, target_links, target_nodes,
                            location, H, rng, chan, arr, wave>>
        ELSE LET n == IF IsStr(node) THEN nodes(connections)[node] ELSE node IN
             /\ location' = [location EXCEPT ![n] = loc]
             /\ IF n \notin DOMAIN connections
                THEN /\ last' = [op |-> "move_node", arg |-> arg, result |-> "KeyError",
                                 realized |-> <<>>, value |-> <<>>]
                     /\ UNCHANGED <<H, rng>>
                ELSE LET ch == RealizeEach(CurCh, MoveNodeRealized(connections, n), 1) IN
                     /\ DrawsBounded(ch)
                     /\ H' = ch.H
                     /\ rng' = ch.rng
                     /\ last' = [op |-> "move_node", arg |-> arg, result |-> "ok",
                                 realized |-> ch.log, value |-> <<>>]
             /\ UNCHANGED <<links, connections, target_links, target_nodes, chan, arr, wave>>

\* ------------------------------------------------- link measurements

\* A measurement property of a Channel object (rx_power, bf_gain, snr, ...):
\* a value determined by the property, the channel and its stored matrix.
LinkProp(link, prop, db) == <<prop, db, link, H[link]>>

\* the attributes AntennaArray provides for its noise power
AntennaArrayNoiseAttrs == {"noise_power", "_noise_power", "noise_power_dbm"}

\* iterating a str yields its characters; a link name is one character long
Chars(name) == <<name>>

\* self.links[name]
Lookup(name) == IF name \in DOMAIN links THEN Ok(links[name]) ELSE Err("KeyError")

FirstErr(xs, R) ==
    LET i == CHOOSE j \in DOMAIN xs :
                 R[xs[j]].err # "ok" /\ \A k \in 1..(j - 1) : R[xs[k]].err = "ok"
    IN  R[xs[i]].err

\* {lk: f(lk) for lk in xs}: R[lk] is the outcome of f(lk)
DictComp(xs, R) ==
    IF \E j \in DOMAIN xs : R[xs[j]].err # "ok" THEN Err(FirstErr(xs, R))
    ELSE Ok([lk \in Range(xs) |-> R[lk].val])

\* [f(lk) for lk in xs]
ListComp(xs, R) ==
    IF \E j \in DOMAIN xs : R[xs[j]].err # "ok" THEN Err(FirstErr(xs, R))
    ELSE Ok([j \in DOMAIN xs |-> R[xs[j]].val])

\* A call argument: nothing, one name or link, or an iterable of names and
\* links; v holds the items.
ArgNone    == [kind |-> "none", v |-> <<>>]
ArgOne(x)  == [kind |-> "one", v |-> <<x>>]
ArgIter(s) == [kind |-> "iter", v |-> s]
LinkValues == SetToSeq(Range(links))

\* the tail shared by the accessors that look a name up first:
\* `if isinstance(link, str): link = self.links[link]' ... `return link.<prop>'
ByName(x, prop, db) ==
    IF IsStr(x)
    THEN (IF Lookup(x).err = "ok" THEN Ok(LinkProp(Lookup(x).val, prop, db))
          ELSE Lookup(x))
    ELSE Ok(LinkProp(x, prop, db))

\* snr tests Iterable before str, so a name is iterated character by
\* character; depth counts the nested calls up to the recursion limit
RECURSIVE snr_one(_, _, _)
snr_one(x, db, depth) ==
    IF IsStr(x)
    THEN (IF depth >= MaxDepth THEN Err("RecursionError")
          ELSE ListComp(Chars(x), [c \in Range(Chars(x)) |-> snr_one(c, db, depth + 1)]))
    ELSE Ok(LinkProp(x, "snr", db))

snr(arg, db) ==
    CASE arg.kind = "none" ->
           DictComp(LinkValues, [lk \in Range(LinkValues) |-> snr_one(lk, db, 1)])
      [] arg.kind = "iter" ->
           ListComp(arg.v, [lk \in Range(arg.v) |-> snr_one(lk, db, 1)])
      [] OTHER -> snr_one(arg.v[1], db, 0)

rx_power(arg) ==
    CASE arg.kind = "none" ->
           DictComp(LinkValues, [lk \in Range(LinkValues) |-> ByName(lk, "rx_power", FALSE)])
      [] arg.kind = "iter" ->
           DictComp(arg.v, [lk \in Range(arg.v) |-> ByName(lk, "rx_power", FALSE)])
      [] OTHER -> ByName(arg.v[1], "rx_power", FALSE)

bf_gain(arg, db) ==
    CASE arg.kind = "none" ->
           DictComp(LinkValues, [lk \in Range(LinkValues) |-> ByName(lk, "bf_gain", db)])
      [] arg.kind = "iter" ->
           DictComp(arg.v, [lk \in Range(arg.v) |-> snr_one(lk, db, 1)])
      [] OTHER -> ByName(arg.v[1], "bf_gain", db)

signal_power(arg, db) ==
    CASE arg.kind = "none" ->
           DictComp(LinkValues, [lk \in Range(LinkValues) |-> ByName(lk, "signal_power", db)])
      [] arg.kind = "iter" ->
           DictComp(arg.v, [lk \in Range(arg.v) |-> snr_one(lk, db, 1)])
      [] OTHER -> ByName(arg.v[1], "signal_power", db)

bf_noise_power(arg, db) ==
    CASE arg.kind = "none" ->
           DictComp(LinkValues, [lk \in Range(LinkValues) |-> ByName(lk, "bf_noise_power", db)])
      [] arg.kind = "iter" ->
           DictComp(arg.v, [lk \in Range(arg.v) |-> snr_one(lk, db, 1)])
      [] OTHER -> ByName(arg.v[1], "bf_noise_power", db)

snr_upper_bound(arg, db) ==
    CASE arg.kind = "none" ->
           DictComp(LinkValues, [lk \in Range(LinkValues) |-> ByName(lk, "snr_upper_bound", db)])
      [] arg.kind = "iter" ->
           ListComp(arg.v, [lk \in Range(arg.v) |-> ByName(lk, "snr_upper_bound", db)])
      [] OTHER -> ByName(arg.v[1], "snr_upper_bound", db)

\* 10 * log10(v + tiny) if db else v
DbIf(db, v) == IF db THEN <<"db", v>> ELSE v

IsOtherNoTest(ul, link) == TRUE

\* the test `ul != link' of the interference loops
IsOther(ul, link) == ul # link

\* the terms added up by `for ul in self.connections[link.rx]["ul"]'
RECURSIVE OtherUplinks(_, _, _)
OtherUplinks(ul, link, i) ==
    IF i > Len(ul) THEN <<>>
    ELSE (IF IsOther(ul[i], link) THEN <<ul[i]>> ELSE <<>>) \o OtherUplinks(ul, link, i + 1)

\* interference, inr, sinr, spectral_efficiency and inr_upper_bound have no
\* branch for an iterable: `link.rx' of a list raises AttributeError
interference_one(x, db) ==
    IF IsStr(x) /\ Lookup(x).err # "ok" THEN Lookup(x)
    ELSE LET link == IF IsStr(x) THEN links[x] ELSE x IN
         IF LinkObj[link].rx \notin DOMAIN connections THEN Err("KeyError")
         ELSE LET others == OtherUplinks(connections[LinkObj[link].rx].ul, link, 1)
                  terms  == [j \in DOMAIN others |->
                                signal_power(ArgOne(others[j]), FALSE).val]
              IN  Ok(DbIf(db, <<"sum", terms>>))

interference(arg, db) ==
    CASE arg.kind = "none" ->
           DictComp(LinkValues, [lk \in Range(LinkValues) |-> interference_one(lk, db)])
      [] arg.kind = "iter" -> Err("AttributeError")
      [] OTHER -> interference_one(arg.v[1], db)

inr_one(x, db) ==
    IF IsStr(x) /\ Lookup(x).err # "ok" THEN Lookup(x)
    ELSE LET link == IF IsStr(x) THEN links[x] ELSE x
             i    == interference_one(link, FALSE)
         IN  IF i.err # "ok" THEN i
             ELSE Ok(DbIf(db, <<"div", i.val, bf_noise_power(ArgOne(link), FALSE).val>>))

inr(arg, db) ==
    CASE arg.kind = "none" ->
           DictComp(LinkValues, [lk \in Range(LinkValues) |-> inr_one(lk, db)])
      [] arg.kind = "iter" -> Err("AttributeError")
      [] OTHER -> inr_one(arg.v[1], db)

sinr_one_no_interference(x, db) ==
    IF IsStr(x) /\ Lookup(x).err # "ok" THEN Lookup(x)
    ELSE LET link == IF IsStr(x) THEN links[x] ELSE x
         IN  Ok(DbIf(db, <<"div", signal_power(ArgOne(link), FALSE).val,
                            <<"add", <<"sum", <<>>>>,
                              bf_noise_power(ArgOne(link), FALSE).val>>>>))

sinr_one(x, db) ==
    IF IsStr(x) /\ Lookup(x).err # "ok" THEN Lookup(x)
    ELSE LET link == IF IsStr(x) THEN links[x] ELSE x
             i    == interference_one(link, FALSE)
         IN  IF i.err # "ok" THEN i
             ELSE Ok(DbIf(db, <<"div", signal_power(ArgOne(link), FALSE).val,
                                <<"add", i.val, bf_noise_power(ArgOne(link), FALSE).val>>>>))

sinr(arg, db) ==
    CASE arg.kind = "none" ->
           DictComp(LinkValues, [lk \in Range(LinkValues) |-> sinr_one(lk, db)])
      [] arg.kind = "iter" -> Err("AttributeError")
      [] OTHER -> sinr_one(arg.v[1], db)

spectral_efficiency_one(x) ==
    IF IsStr(x) /\ Lookup(x).err # "ok" THEN Lookup(x)
    ELSE LET link == IF IsStr(x) THEN links[x] ELSE x
             r    == sinr_one(link, FALSE)
         IN  IF r.err # "ok" THEN r ELSE Ok(<<"log2", <<"add", 1, r.val>>>>)

spectral_efficiency(arg) ==
    CASE arg.kind = "none" ->
           DictComp(LinkValues, [lk \in Range(LinkValues) |-> spectral_efficiency_one(lk)])
      [] arg.kind = "iter" -> Err("AttributeError")
      [] OTHER -> spectral_efficiency_one(arg.v[1])

\* the attribute of link.rx read by inr_upper_bound
InrUbNoiseAttr == "noise_power_lin"

inr_upper_bound_one(x, db) ==
    IF IsStr(x) /\ Lookup(x).err # "ok" THEN Lookup(x)
    ELSE LET link == IF IsStr(x) THEN links[x] ELSE x IN
         IF LinkObj[link].rx \notin DOMAIN connections THEN Err("KeyError")
         ELSE LET others == OtherUplinks(connections[LinkObj[link].rx].ul, link, 1)
                  terms  == [j \in DOMAIN others |->
                                <<"mul", LinkProp(others[j], "rx_power", FALSE),
                                  <<"N", LinkObj[others[j]].tx>>,
                                  <<"N", LinkObj[others[j]].rx>>>>]
              IN  IF InrUbNoiseAttr \notin AntennaArrayNoiseAttrs
                  THEN Err("AttributeError")
                  ELSE Ok(DbIf(db, <<"div", <<"sum", terms>>,
                                     <<InrUbNoiseAttr, LinkObj[link].rx>>>>))

inr_upper_bound(arg, db) ==
    CASE arg.kind = "none" ->
           DictComp(LinkValues, [lk \in Range(LinkValues) |-> inr_upper_bound_one(lk, db)])
      [] arg.kind = "iter" -> Err("AttributeError")
      [] OTHER -> inr_upper_bound_one(arg.v[1], db)

Accessors == {"rx_power", "bf_gain", "signal_power", "bf_noise_power", "snr",
              "snr_upper_bound", "interference", "inr", "sinr",
              "spectral_efficiency", "inr_upper_bound"}

Call(acc, arg, db) ==
    CASE acc = "rx_power"            -> rx_power(arg)
      [] acc = "bf_gain"             -> bf_gain(arg, db)
      [] acc = "signal_power"        -> signal_power(arg, db)
      [] acc = "bf_noise_power"      -> bf_noise_power(arg, db)
      [] acc = "snr"                 -> snr(arg, db)
      [] acc = "snr_upper_bound"     -> snr_upper_bound(arg, db)
      [] acc = "interference"        -> interference(arg, db)
      [] acc = "inr"                 -> inr(arg, db)
      [] acc = "sinr"                -> sinr(arg, db)
      [] acc = "spectral_efficiency" -> spectral_efficiency(arg)
      [] acc = "inr_upper_bound"     -> inr_upper_bound(arg, db)

\* ... over the channels l1 and l2, which share the receiver c
MetricLinks == {"l1", "l2"}
MetricNames == {LinkObj[l].name : l \in MetricLinks}
AddLinks2    == AddLinksOver(One(MetricLinks), FALSE)
RemoveLinks2 == RemoveLinksOver(One(MetricLinks \cup MetricNames), FALSE)

QueryArgs ==
    {ArgNone} \cup {ArgOne(x) : x \in MetricLinks \cup MetricNames}
        \cup {ArgIter(xs) : xs \in ArgSeqs(MetricLinks)}
        \cup {ArgIter(<<nm>>) : nm \in MetricNames}

\* A call of a per-link accessor: it reads the network and changes nothing,
\* so a second call in a row sees the network of the first; calls are taken
\* from the states an operation has reached.
Query ==
    \E acc \in Accessors, arg \in QueryArgs, db \in BOOLEAN :
        LET r == Call(acc, arg, db) IN
        /\ last.op \notin Accessors
        /\ last' = [op |-> acc, arg |-> arg, result |-> r.err, realized |-> <<>>,
                    value |-> r.val, db |-> db]
        /\ UNCHANGED <<links, connections, target_links, target_nodes, location, H, rng,
                       chan, arr, wave>>

\* ================================================================ claims
Incident(l, n) == LinkObj[l].tx = n \/ LinkObj[l].rx = n

Count(s, x) == Cardinality({i \in DOMAIN s : s[i] = x})

\* the node a move_node argument denotes
NodeOf(v) == IF IsStr(v) THEN CHOOSE n \in Nodes : NodeName[n] = v ELSE v

\* C1: every link of the links mapping appears exactly once in the downlink
\* list of its tx and in no other downlink list, exactly once in the uplink
\* list of its rx and in no other uplink list, and its tx and rx are keys of
\* connections.
C1_GraphConsistent ==
    \A nm \in DOMAIN links :
        LET l == links[nm] IN
        /\ LinkObj[l].tx \in DOMAIN connections
        /\ LinkObj[l].rx \in DOMAIN connections
        /\ \A n \in DOMAIN connections :
              /\ Count(connections[n].dl, l) = (IF n = LinkObj[l].tx THEN 1 ELSE 0)
              /\ Count(connections[n].ul, l) = (IF n = LinkObj[l].rx THEN 1 ELSE 0)

\* C2: after remove_nodes([n]) has returned, no link with tx n or rx n is in
\* the links mapping or in a list of its other endpoint.
C2_RemoveNodeCascades ==
    (last.op = "remove_nodes" /\ last.result = "ok" /\ ~last.arg.single
        /\ Len(last.arg.items) = 1)
    => LET n == last.arg.items[1] IN
       \A l \in LinkIds :
           Incident(l, n) =>
               /\ l \notin Range(links)
               /\ \A m \in DOMAIN connections \ {n} :
                      l \notin Range(connections[m].dl) \cup Range(connections[m].ul)

\* C3: when remove_nodes([n]) has removed a node and the next call adds a
\* new link object whose name is that of a link the removal cascaded to,
\* the name maps to the new object and the new object is in its tx's
\* downlink list and its rx's uplink list.
C3_ReAddIsFresh ==
    [][(/\ last.op = "remove_nodes" /\ last.result = "ok" /\ ~last.arg.single
        /\ last'.op = "add_links" /\ Len(last'.arg.items) = 1
        /\ \E m \in last.value :
              /\ m # last'.arg.items[1]
              /\ LinkObj[m].name = LinkObj[last'.arg.items[1]].name)
       => LET l == last'.arg.items[1] IN
          /\ LinkObj[l].name \in DOMAIN links'
          /\ links'[LinkObj[l].name] = l
          /\ LinkObj[l].tx \in DOMAIN connections'
          /\ LinkObj[l].rx \in DOMAIN connections'
          /\ l \in Range(connections'[LinkObj[l].tx].dl)
          /\ l \in Range(connections'[LinkObj[l].rx].ul)]_vars

\* C5: move_node(A, location) leaves the stored matrix and the stream state
\* of every link whose tx and rx both differ from A as they were.
C5_MoveNodeFrame ==
    [][last'.op = "move_node"
       => \A l \in LinkIds :
              ~Incident(l, NodeOf(last'.arg.items[1]))
                  => H'[l] = H[l] /\ rng'[l] = rng[l]]_vars

\* a move of a node has re-realized its links while a registered, realized
\* link that does not touch the node is in the network
C5_Witness ==
    /\ last.op = "move_node" /\ last.result = "ok"
    /\ last.realized # <<>>
    /\ \E l \in Range(links) :
          /\ ~Incident(l, NodeOf(last.arg.items[1]))
          /\ H[l] > 0

\* C6: a move_node(n, location) that returns has called realize() on
\* exactly the links of the links mapping whose tx or rx is n.
C6_MoveNodeRealizesIncident ==
    (last.op = "move_node" /\ last.result = "ok")
    => Range(last.realized)
          = {l \in Range(links) : Incident(l, NodeOf(last.arg.items[1]))}

\* C7: a remove_links call that raises leaves the links mapping and the
\* connections structure as they were before the call.
C7_RemoveLinksAtomic ==
    [][(last'.op = "remove_links" /\ last'.result # "ok")
       => (links' = links /\ connections' = connections)]_vars

\* C8: remove_nodes([n]) with n not in the network raises a lookup error.
LookupErrors == {"KeyError", "IndexError", "LookupError"}

C8_RemoveAbsentNodeRaises ==
    [][(/\ last'.op = "remove_nodes" /\ ~last'.arg.single
        /\ Len(last'.arg.items) = 1
        /\ last'.arg.items[1] \notin DOMAIN connections)
       => last'.result \in LookupErrors]_vars

\* C8 as amended: remove_nodes called with an iterable of nodes none of
\* which is in the network returns without raising and leaves the links
\* mapping, the connections structure and the target lists as they were.
C8_RemoveAbsentNodeIgnored ==
    [][(/\ last'.op = "remove_nodes" /\ ~last'.arg.single
        /\ last'.arg.items # <<>>
        /\ \A i \in DOMAIN last'.arg.items :
              last'.arg.items[i] \notin DOMAIN connections)
       => /\ last'.result = "ok"
          /\ links' = links /\ connections' = connections
          /\ target_links' = target_links /\ target_nodes' = target_nodes]_vars

\* remove_nodes([n]) has returned for a node n that is not in a network
\* that holds links
C8_Witness ==
    /\ last.op = "remove_nodes" /\ ~last.arg.single /\ last.result = "ok"
    /\ Len(last.arg.items) = 1
    /\ last.arg.items[1] \notin DOMAIN connections
    /\ DOMAIN links # {}

\* C9: every target node is a key of connections and every target link is
\* a value of the links mapping.
C9_TargetsInNetwork ==
    /\ Range(target_nodes) \subseteq DOMAIN connections
    /\ Range(target_links) \subseteq Range(links)

\* the link a one-link accessor argument denotes
LinkOf(v) == IF IsStr(v) THEN links[v] ELSE v

\* C4: interference(L, db=False) of a registered link L is the sum of the
\* linear signal powers of the uplinks at L's receiver other than L: each
\* other link is a term as often as the receiver's uplink list holds it,
\* and L's own signal power is never a term.
C4_InterferenceSumsOthers ==
    (/\ last.op = "interference" /\ last.arg.kind = "one" /\ ~last.db
     /\ (IsStr(last.arg.v[1]) => last.arg.v[1] \in DOMAIN links)
     /\ LinkOf(last.arg.v[1]) \in Range(links))
    => /\ last.result = "ok"
       /\ last.value[1] = "sum"
       /\ LET L  == LinkOf(last.arg.v[1])
              ul == connections[LinkObj[L].rx].ul
          IN  \A m \in LinkIds :
                  Count(last.value[2], LinkProp(m, "signal_power", FALSE))
                      = (IF m = L THEN 0 ELSE Count(ul, m))

\* interference was asked for a registered, realized link that is in its
\* receiver's uplink list next to another realized link, whose signal power
\* is the only term
C4_Witness ==
    /\ last.op = "interference" /\ last.arg.kind = "one" /\ ~last.db
    /\ ~IsStr(last.arg.v[1])
    /\ last.arg.v[1] \in Range(links)
    /\ last.result = "ok"
    /\ LET L  == last.arg.v[1]
           ul == connections[LinkObj[L].rx].ul
       IN  /\ Count(ul, L) = 1
           /\ Len(ul) = 2
           /\ Len(last.value[2]) = 1
           /\ H[L] > 0
           /\ \E m \in Range(links) \ {L} :
                 /\ H[m] > 0
                 /\ last.value[2][1] = LinkProp(m, "signal_power", FALSE)

\* C10: every per-link accessor called with the name of a registered link
\* returns, and returns what it returns for that link object.
C10_NameEqualsObject ==
    (/\ last.op \in Accessors /\ last.arg.kind = "one"
     /\ IsStr(last.arg.v[1]) /\ last.arg.v[1] \in DOMAIN links)
    => /\ last.result = "ok"
       /\ Call(last.op, ArgOne(links[last.arg.v[1]]), last.db).err = "ok"
       /\ Call(last.op, ArgOne(links[last.arg.v[1]]), last.db).val = last.value

\* the accessors whose iterable branch builds a list; the others build a
\* dict keyed by link
ListAccessors == {"snr", "snr_upper_bound"}

\* C11: every per-link accessor called with an iterable of registered links
\* returns, and holds for each link of the iterable the value the same
\* accessor returns for that link alone.
C11_IterableMapsElementwise ==
    (/\ last.op \in Accessors /\ last.arg.kind = "iter"
     /\ last.arg.v # <<>>
     /\ \A j \in DOMAIN last.arg.v :
           ~IsStr(last.arg.v[j]) /\ last.arg.v[j] \in Range(links))
    => /\ last.result = "ok"
       /\ \A j \in DOMAIN last.arg.v :
            LET one == Call(last.op, ArgOne(last.arg.v[j]), last.db) IN
            /\ one.err = "ok"
            /\ one.val = (IF last.op \in ListAccessors THEN last.value[j]
                          ELSE last.value[last.arg.v[j]])

\* C12: sinr(L, db=False) of a registered link L is L's signal power divided
\* by the sum of interference(L) and a noise term; the interference is the
\* sum over the other uplinks at L's receiver and the noise term is the one
\* inr(L) divides by.
C12_SinrFormula ==
    (/\ last.op = "sinr" /\ last.arg.kind = "one" /\ ~last.db
     /\ (IsStr(last.arg.v[1]) => last.arg.v[1] \in DOMAIN links)
     /\ LinkOf(last.arg.v[1]) \in Range(links))
    => /\ last.result = "ok"
       /\ LET L  == LinkOf(last.arg.v[1])
              ul == connections[LinkObj[L].rx].ul
              i  == interference(ArgOne(L), FALSE)
              n  == inr(ArgOne(L), FALSE)
          IN  /\ i.err = "ok" /\ n.err = "ok"
              /\ last.value[1] = "div"
              /\ last.value[2] = LinkProp(L, "signal_power", FALSE)
              /\ last.value[3][1] = "add"
              /\ last.value[3][2] = i.val
              /\ i.val[1] = "sum"
              /\ \A m \in LinkIds :
                    Count(i.val[2], LinkProp(m, "signal_power", FALSE))
                        = (IF m = L THEN 0 ELSE Count(ul, m))
              /\ n.val[1] = "div"
              /\ last.value[3][3] = n.val[3]

\* sinr was asked for a registered, realized link whose receiver has one
\* other realized uplink, which is the only interference term
C12_Witness ==
    /\ last.op = "sinr" /\ last.arg.kind = "one" /\ ~last.db
    /\ ~IsStr(last.arg.v[1])
    /\ last.arg.v[1] \in Range(links)
    /\ last.result = "ok"
    /\ LET L  == last.arg.v[1]
           ul == connections[LinkObj[L].rx].ul
       IN  /\ Count(ul, L) = 1
           /\ Len(ul) = 2
           /\ H[L] > 0
           /\ Len(last.value[3][2][2]) = 1
           /\ \E m \in Range(links) \ {L} :
                 /\ H[m] > 0
                 /\ last.value[3][2][2][1] = LinkProp(m, "signal_power", FALSE)

\* C13: inr_upper_bound(L, db=False) of a registered link L returns the sum
\* over the other uplinks ul at L's receiver of ul's received power times
\* ul.tx.N times ul.rx.N, divided by a noise power the receiver array
\* provides.
C13_InrUpperBoundReturns ==
    (/\ last.op = "inr_upper_bound" /\ last.arg.kind = "one" /\ ~last.db
     /\ (IsStr(last.arg.v[1]) => last.arg.v[1] \in DOMAIN links)
     /\ LinkOf(last.arg.v[1]) \in Range(links))
    => /\ last.result = "ok"
       /\ last.value[1] = "div"
       /\ last.value[2][1] = "sum"
       /\ LET L  == LinkOf(last.arg.v[1])
              ul == connections[LinkObj[L].rx].ul
          IN  /\ \A m \in LinkIds :
                    Count(last.value[2][2],
                          <<"mul", LinkProp(m, "rx_power", FALSE),
                            <<"N", LinkObj[m].tx>>, <<"N", LinkObj[m].rx>>>>)
                        = (IF m = L THEN 0 ELSE Count(ul, m))
              /\ last.value[3][1] \in AntennaArrayNoiseAttrs
              /\ last.value[3][2] = LinkObj[L].rx

\* C14: for single-element arrays and a single-cluster single-ray channel
\* realized once, the realized 1 x 1 matrix has unit squared magnitude.
C14_UnitMagnitude ==
    (/\ last.op = "realize_ray" /\ last.result = "ok"
     /\ chan.n_clusters = 1 /\ chan.n_rays = <<1>>)
    => Abs2(chan.H.sum) = chan.H.over

\* C14 as amended: for single-element arrays and a single-cluster single-ray
\* channel realized once, the realized 1 x 1 matrix is the drawn ray gain
\* itself (both array responses are 1, the normalisation divides by
\* sqrt(1)), so its squared magnitude is the gain's squared magnitude.
C14_MatrixIsRayGain ==
    (/\ last.op = "realize_ray" /\ last.result = "ok"
     /\ chan.n_clusters = 1 /\ chan.n_rays = <<1>>)
    => /\ Len(chan.ray_gain) = 1
       /\ chan.H.over = 1
       /\ chan.H.sum = chan.ray_gain[1]
       /\ Abs2(chan.H.sum) = Abs2(chan.ray_gain[1])

\* a single-cluster single-ray channel was realized with a gain whose
\* squared magnitude is not 1
C14_Witness ==
    /\ last.op = "realize_ray" /\ last.result = "ok"
    /\ chan.n_clusters = 1 /\ chan.n_rays = <<1>>
    /\ Len(chan.ray_gain) = 1
    /\ Abs2(chan.ray_gain[1]) # 1
    /\ chan.H.sum = chan.ray_gain[1]

\* C15: a scalar ray count s given at construction or to the n_rays setter
\* of a channel with C clusters yields a vector of length C whose entries
\* are all s, and total_n_rays is C times s.
C15_ScalarBroadcast ==
    (last.op \in {"RayClusterChannel", "n_rays"} /\ last.arg.kind = "int")
    => /\ Len(chan.n_rays) = chan.n_clusters
       /\ \A i \in DOMAIN chan.n_rays : chan.n_rays[i] = last.arg.v[1]
       /\ total_n_rays(chan) = chan.n_clusters * last.arg.v[1]

\* the setter was given a scalar above 1 on a channel of several clusters
C15_Witness ==
    /\ last.op = "n_rays" /\ last.arg.kind = "int"
    /\ last.arg.v[1] > 1
    /\ chan.n_clusters > 1
    /\ Len(chan.n_rays) = chan.n_clusters

\* C16: after construction and any assignments to n_clusters and n_rays the
\* n_rays vector is as long as n_clusters.
C16_RayVectorLength == Len(chan.n_rays) = chan.n_clusters

\* C19: generate_channel_matrix with use_torch=True returns, and returns
\* the matrix that use_torch=False returns for the same rays.
C19_TorchAgrees ==
    (last.op = "generate_channel_matrix" /\ last.use_torch)
    => /\ last.result = "ok"
       /\ last.value = generate_channel_matrix(chan, last.arg.v, FALSE).val

\* C17: the number of coordinate rows, the number of weights and
\* num_antennas of an AntennaArray are equal, after every call.
C17_ArrayLengths ==
    /\ Len(arr.coordinates) = arr.num_antennas
    /\ Len(arr.weights) = arr.num_antennas

\* the rows of the array (before the call) that equal no row of c
RECURSIVE Unmatched(_, _, _)
Unmatched(a, c, i) ==
    IF i > Len(a.coordinates) THEN <<>>
    ELSE (IF \E j \in DOMAIN c : RowEq(c[j], a.coordinates[i]) THEN <<>> ELSE <<i>>)
             \o Unmatched(a, c, i + 1)

\* C20: remove_elements(coordinates=c) removes exactly the elements equal
\* to a row of c on all three axes, with their weights, and lowers N by
\* their number; with no match it fails with a no-match error and leaves
\* the array as it was.
C20_RemoveByCoordinates ==
    (last.op = "remove_elements" /\ last.arg.by = "coordinates")
    => LET pre  == last.value
           keep == Unmatched(pre, last.arg.v, 1)
       IN  IF Len(keep) < Len(pre.coordinates)
           THEN /\ last.result = "ok"
                /\ arr.coordinates = [k \in DOMAIN keep |-> pre.coordinates[keep[k]]]
                /\ arr.weights = [k \in DOMAIN keep |-> pre.weights[keep[k]]]
                /\ arr.num_antennas = pre.num_antennas - (Len(pre.coordinates) - Len(keep))
           ELSE /\ last.result = "ValueError"
                /\ arr = pre

\* C18: realizing channels never changes another channel's stream or stored
\* matrix: a call moves the stream of a channel by the number of times it
\* realized that channel and by nothing else, and the matrix a channel
\* stores is the one of its own stream position.
C18_StreamsIsolated ==
    [][\A B \in LinkIds :
          /\ rng'[B] = rng[B] + Count(last'.realized, B)
          /\ (Count(last'.realized, B) = 0 => H'[B] = H[B])
          /\ (Count(last'.realized, B) > 0 => H'[B] = ChannelMatrix(B, rng'[B]))]_vars

\* a channel was realized while another channel, realized before, kept its
\* stream position and its matrix
C18_Witness ==
    /\ last.op \in {"channel_realize", "move_node"}
    /\ last.realized # <<>>
    /\ \E B \in LinkIds :
          /\ Count(last.realized, B) = 0
          /\ rng[B] > 0
          /\ H[B] = ChannelMatrix(B, rng[B])

\* C27: after remove_nodes([n]) on a network that contains n, n is neither
\* a key of connections nor a value of the nodes mapping.
C27_RemovedNodeIsGone ==
    [][(/\ last'.op = "remove_nodes" /\ ~last'.arg.single
        /\ Len(last'.arg.items) = 1
        /\ last'.arg.items[1] \in DOMAIN connections)
       => /\ last'.arg.items[1] \notin DOMAIN connections'
          /\ NodeName[last'.arg.items[1]] \notin DOMAIN nodes(connections')]_vars

\* C28: remove_nodes given a single node, not wrapped in an iterable,
\* returns and leaves the network as remove_nodes([node]) leaves it.
C28_RemoveSingleNode ==
    [][(last'.op = "remove_nodes" /\ last'.arg.single)
       => LET g == RemoveNodesLoop(CurNet, last'.arg.items, 1) IN
          /\ last'.result = g.err
          /\ links' = g.links /\ connections' = g.conn
          /\ target_links' = g.tl /\ target_nodes' = g.tn]_vars

\* the sum of the coordinate rows: N times the array center
RECURSIVE CoordSum(_, _)
CoordSum(a, i) ==
    IF i > Len(a.coordinates) THEN <<0, 0, 0>>
    ELSE LET r == CoordSum(a, i + 1) IN
         <<a.coordinates[i][1] + r[1], a.coordinates[i][2] + r[2],
           a.coordinates[i][3] + r[3]>>

\* C21: rotate with inplace=True completes, and leaves the array center and
\* N as they were.
C21_RotateAboutCenter ==
    [][(last'.op = "rotate" /\ last'.arg.inplace)
       => /\ last'.result = "ok"
          /\ arr'.num_antennas = arr.num_antennas
          /\ Len(arr'.coordinates) = Len(arr.coordinates)
          /\ CoordSum(arr', 1) = CoordSum(arr, 1)]_vars

\* C23: the entry of get_array_response that belongs to element 0 is 1,
\* for every array and every azimuth and elevation.
C23_FirstElementIsOne ==
    (last.op = "get_array_response")
    => /\ last.result = "ok"
       /\ Len(last.value) = Len(arr.coordinates)
       /\ last.value[1] = <<1, 0>>

\* the response was taken of an array whose element 0 is away from the
\* origin and whose other element answers with -1
C23_Witness ==
    /\ last.op = "get_array_response" /\ last.result = "ok"
    /\ Len(arr.coordinates) = 2 /\ arr.num_antennas = 2
    /\ arr.coordinates[1] # Origin
    /\ last.value[1] = <<1, 0>>
    /\ last.value[2] = <<0 - 1, 0>>

\* C22: a RayClusterChannel constructed with a cluster-angle or ray-angle
\* distribution name that is no supported sampling distribution is rejected
\* by the constructor.
C22_BadDistributionRejected ==
    (/\ last.op = "RayClusterChannel"
     /\ \/ chan.cluster_angle_distrubution \notin SamplingDistributions
        \/ chan.ray_angle_distribution \notin SamplingDistributions)
    => last.result # "ok"

\* C24: generate_channel_matrix returns a matrix of shape
\* (num_channels, tx.N, rx.N).
C24_ShapeTxRx ==
    (last.op = "generate_channels")
    => last.value = <<last.arg.b, last.arg.txN, last.arg.rxN>>

\* C25: realize() of RayClusterChannel and of SphericalWave completes and
\* stores the matrix it computed on the channel.
C25_RealizeCompletes ==
    (last.op \in {"realize_ray", "realize_wave"})
    => /\ last.result = "ok"
       /\ (last.op = "realize_ray" => chan.H = last.value)
       /\ (last.op = "realize_wave" => wave.channel_matrix = last.value)

\* the first ray of cluster c, counted from 0
RECURSIVE RayOffset(_, _)
RayOffset(v, c) == IF c <= 1 THEN 0 ELSE v[c - 1] + RayOffset(v, c - 1)

\* C26: generate_ray_angles returns sum(n_rays) angles of arrival and as
\* many of departure; the rays of cluster c are the n_rays[c] entries after
\* those of the clusters before c, each drawn around cluster c's angle.
C26_RaysFollowClusters ==
    (last.op = "generate_ray_angles")
    => /\ last.result = "ok"
       /\ Len(last.value.aoa) = total_n_rays(chan)
       /\ Len(last.value.aod) = total_n_rays(chan)
       /\ Len(chan.n_rays) = chan.n_clusters
       /\ \A c \in 1..chan.n_clusters : \A k \in 1..chan.n_rays[c] :
             /\ last.value.aoa[RayOffset(chan.n_rays, c) + k] = <<"cluster_aoa", c>>
             /\ last.value.aod[RayOffset(chan.n_rays, c) + k] = <<"cluster_aod", c>>

\* ======================================================== specifications
Next == AddNodes \/ AddLinks \/ RemoveNodes \/ RemoveLinks

Spec == Init /\ [][Next]_vars

NextRemove == AddLinks1 \/ RemoveLinks1 \/ RemoveNodes

SpecRemove == Init /\ [][NextRemove]_vars

NextMove == AddLinks1 \/ RemoveNodes1 \/ RemoveLinks1 \/ MoveNode \/ Realize

SpecMove == Init /\ [][NextMove]_vars
NextTarget ==
    \/ AddLinks1 \/ RemoveNodes1 \/ RemoveLinks1
    \/ AddTargetNodes \/ RemoveTargetNodes \/ AddTargetLinks \/ RemoveTargetLinks

SpecTarget == Init /\ [][NextTarget]_vars
NextMetric == AddLinks2 \/ RemoveNodes1 \/ RemoveLinks2 \/ Realize \/ Query

SpecMetric == Init /\ [][NextMetric]_vars

NextRayShape == RayInit \/ SetNClusters \/ SetNRays

SpecRayShape == Init /\ [][NextRayShape]_vars

NextRay ==
    \/ RayInit \/ RayInitNamed \/ RayRealize \/ GenerateChannelMatrix
    \/ GenerateRayAngles \/ GenerateChannels \/ SphericalRealize

SpecRay == Init /\ [][NextRay]_vars

NextArray ==
    \/ ArrayInit \/ AddElements \/ RemoveElements
    \/ SetWeights \/ Reset \/ NormalizeWeights

SpecArray == Init /\ [][NextArray]_vars

NextStream == AddLinks1 \/ RemoveLinks1 \/ MoveNode \/ RealizeOne

SpecStream == Init /\ [][NextStream]_vars

NextGeometry == ArrayInit \/ AddElements \/ GetArrayResponse \/ Rotate

SpecGeometry == Init /\ [][NextGeometry]_vars
====
